---- MODULE Spec2Model ----
(***************************************************************************)
(* Model of src/app.py: a Streamlit script that loads Google Cloud         *)
(* credentials, builds four service clients, serves a form and, when the   *)
(* button is pressed, runs process_and_translate on the uploaded audio.    *)
(*                                                                         *)
(* Streamlit executes the whole script once per browser session and again  *)
(* on every widget interaction of that session; sessions run in separate   *)
(* threads of one server process and share the clock and the bucket.       *)
(* Texts and byte strings are sequences; external services are the         *)
(* environment and answer with any value of a small set, or fault.         *)
(***************************************************************************)
EXTENDS Integers, Sequences, FiniteSets, TLC

VARIABLES
    pc,                 \* per session: position of the script run
    selected_lang_name, \* per session: st.radio value (line 102)
    uploaded_file,      \* per session: st.file_uploader value (line 105)
    clicked,            \* per session: st.button value of this run (line 110)
    credentials,        \* per session: result of load_gcp_credentials (line 34)
    clients,            \* per session: clients constructed in this run (35-38)
    calls,              \* per session: external calls made by this run, in order
    page,               \* per session: elements rendered by this run, in order
    transcript,         \* per session: local of process_and_translate (line 77)
    translated_text,    \* per session: local of process_and_translate (line 85)
    gcs_uri,            \* per session: local of process_and_translate (line 71)
    operation,          \* per session: long-running job handle (line 74)
    e,                  \* per session: exception caught at line 92
    ret,                \* per session: value returned at line 81, 91 or 94
    now,                \* time.time(), in clock ticks
    bucket,             \* objects of BUCKET_NAME: blob name -> content
    response,           \* a recognition response (transcript assembly only)
    joined              \* the text assembled from response

vars == <<pc, selected_lang_name, uploaded_file, clicked, credentials, clients,
          calls, page, transcript, translated_text, gcs_uri, operation, e, ret,
          now, bucket, response, joined>>

sessionVars == <<pc, selected_lang_name, uploaded_file, clicked, credentials,
                 clients, calls, page, transcript, translated_text, gcs_uri,
                 operation, e, ret>>

-----------------------------------------------------------------------------
(* Bounds of the model *)

MaxSegments == 2        \* results per recognition response
MaxClock == 2           \* last clock tick
TicksPerSecond == 2     \* clock ticks per second of time.time()

(* Program constants *)

ShortLimitSeconds == 60     \* line 65
MsPerSecond == 1000         \* line 61
SampleRate == 16000         \* line 56
Channels == 1               \* line 56
ResultTimeout == 900        \* line 75

Sessions == {"s1", "s2"}

BUCKET_NAME == "bucket-for-translator-462605"

input_lang_options == [English |-> "en-US", Hindi |-> "hi-IN"]

LangNames == DOMAIN input_lang_options

ClientNames == <<"speech", "translate", "tts", "storage">>

-----------------------------------------------------------------------------
(* Values *)

None == <<"None">>
NoneTriple == <<None, None, None>>
NotReturned == <<>>
NoFault == <<>>
NoOperation == <<>>

Chars == {"a", "b"}

RECURSIVE SeqsUpTo(_, _)
SeqsUpTo(S, n) ==
    IF n = 0 THEN {<<>>}
    ELSE LET shorter == SeqsUpTo(S, n - 1)
         IN  shorter \cup {Append(q, x) : q \in shorter, x \in S}

\* Texts an alternative may carry: empty or one character.
AltTexts == SeqsUpTo(Chars, 1)

\* A result carries one alternative (max_alternatives is left at its default),
\* or two.
Results == {<<t>> : t \in AltTexts} \cup {<<t, u>> : t \in AltTexts, u \in AltTexts}

\* response.results of the recognition service.
Responses == SeqsUpTo(Results, MaxSegments)

\* Uploaded files: undecodable bytes, or audio of some length in ms.
Durations == {10000, 59999, 60000, 90000}
NoFile == [kind |-> "none", ms |-> 0]
Files == {[kind |-> "junk", ms |-> 0]} \cup {[kind |-> "audio", ms |-> d] : d \in Durations}

Truthy(x) == x # None /\ x # <<>>

\* an argument the call leaves at its default
Omitted == "omitted"

-----------------------------------------------------------------------------
(* Pure parts of the script *)

IsShortAudio_Inclusive(ms) == ms <= ShortLimitSeconds * MsPerSecond

\* line 61 and 65: duration_seconds = len(audio_segment) / 1000.0 is below 60.
IsShortAudio(ms) == ms < ShortLimitSeconds * MsPerSecond

\* line 56 and 58: set_channels(1).set_frame_rate(16000), exported as wav.
NormalizedAudio(s, file) ==
    [owner |-> s, ms |-> file.ms, channels |-> Channels, rate |-> SampleRate]

\* line 71: f"audio-uploads/temp-{int(time.time())}.wav"
BlobName(t) == <<"audio-uploads/temp-", t \div TicksPerSecond, ".wav">>

\* line 49: f"gs://{BUCKET_NAME}/{destination_blob_name}"
GcsUri(name) == <<"gs://", BUCKET_NAME, "/">> \o name

\* the blob a URI of this bucket names
BlobOfUri(uri) == SubSeq(uri, 4, Len(uri))

RECURSIVE JoinTranscript_LastAlternative(_)
JoinTranscript_LastAlternative(results) ==
    IF results = <<>> THEN <<>>
    ELSE Head(results)[Len(Head(results))] \o JoinTranscript_LastAlternative(Tail(results))

\* line 77: "".join(result.alternatives[0].transcript for result in response.results)
RECURSIVE JoinTranscript(_)
JoinTranscript(results) ==
    IF results = <<>> THEN <<>>
    ELSE Head(results)[1] \o JoinTranscript(Tail(results))

\* the translation service's answer for a text
Tamil(text) == <<"ta">> \o text

\* the synthesis service's answers for a text: MP3 bytes, possibly none
SynthesizedAudio(text) == {<<>>, <<"mp3">> \o text}

Fault(op, why) == <<"fault", op, why>>

Ops(log) == [i \in 1..Len(log) |-> log[i].op]

Kinds(elements) == [i \in 1..Len(elements) |-> elements[i][1]]

Count(seq, x) == Cardinality({i \in 1..Len(seq) : seq[i] = x})

-----------------------------------------------------------------------------
(* Initial state: every session is about to run the script for the first    *)
(* time, with the radio at its first option and nothing uploaded.           *)

FreshRun(s) ==
    /\ credentials' = [credentials EXCEPT ![s] = "unloaded"]
    /\ clients' = [clients EXCEPT ![s] = <<>>]
    /\ calls' = [calls EXCEPT ![s] = <<>>]
    /\ page' = [page EXCEPT ![s] = <<>>]
    /\ transcript' = [transcript EXCEPT ![s] = None]
    /\ translated_text' = [translated_text EXCEPT ![s] = None]
    /\ gcs_uri' = [gcs_uri EXCEPT ![s] = None]
    /\ operation' = [operation EXCEPT ![s] = NoOperation]
    /\ e' = [e EXCEPT ![s] = NoFault]
    /\ ret' = [ret EXCEPT ![s] = NotReturned]

InitSessions ==
    /\ pc = [s \in Sessions |-> "load_credentials"]
    /\ selected_lang_name = [s \in Sessions |-> "English"]
    /\ uploaded_file = [s \in Sessions |-> NoFile]
    /\ clicked = [s \in Sessions |-> FALSE]
    /\ credentials = [s \in Sessions |-> "unloaded"]
    /\ clients = [s \in Sessions |-> <<>>]
    /\ calls = [s \in Sessions |-> <<>>]
    /\ page = [s \in Sessions |-> <<>>]
    /\ transcript = [s \in Sessions |-> None]
    /\ translated_text = [s \in Sessions |-> None]
    /\ gcs_uri = [s \in Sessions |-> None]
    /\ operation = [s \in Sessions |-> NoOperation]
    /\ e = [s \in Sessions |-> NoFault]
    /\ ret = [s \in Sessions |-> NotReturned]
    /\ now = 0
    /\ bucket = <<>>

Init ==
    /\ InitSessions
    /\ response = <<>>
    /\ joined = None

-----------------------------------------------------------------------------
(* Startup of a script run *)

Goto(s, label) == pc' = [pc EXCEPT ![s] = label]

Render(s, elements) == page' = [page EXCEPT ![s] = page[s] \o elements]

Called(s, call) == calls' = [calls EXCEPT ![s] = Append(calls[s], call)]

Stop_FallThrough(s) == Goto(s, "init_clients")

\* st.stop(): the run ends here and nothing below it executes.
Stop(s) == Goto(s, "halted")

\* lines 16-30, called at line 34. The secret store and the key file are the
\* environment's. The st.stop() of line 30 raises inside the try of line 33:
\* a Streamlit whose stop exception is an Exception has it caught at line 40,
\* which reports again and stops at line 42; otherwise the run ends at line 30.
LoadCredentials(s) ==
    /\ pc[s] = "load_credentials"
    /\ \E secrets \in BOOLEAN, keyfile \in BOOLEAN :
        IF secrets
        THEN /\ credentials' = [credentials EXCEPT ![s] = "secrets"]
             /\ Goto(s, "init_clients")
             /\ UNCHANGED page
        ELSE IF keyfile
        THEN /\ credentials' = [credentials EXCEPT ![s] = "file"]
             /\ Goto(s, "init_clients")
             /\ UNCHANGED page
        ELSE /\ credentials' = [credentials EXCEPT ![s] = "none"]
             /\ \E caught \in BOOLEAN :
                   Render(s, << <<"error", "GCP credentials not found">> >>
                             \o (IF caught
                                 THEN << <<"error", "Error initializing Google Cloud clients">> >>
                                 ELSE <<>>))
             /\ Stop(s)
    /\ UNCHANGED <<selected_lang_name, uploaded_file, clicked, clients, calls,
                   transcript, translated_text, gcs_uri, operation, e, ret, now,
                   bucket, response, joined>>

\* lines 33-42: the credentials are parsed and the four clients constructed in
\* order; the first k constructions succeed, and with k < 4 the next one raises.
InitClients(s) ==
    /\ pc[s] = "init_clients"
    /\ \E k \in 0..Len(ClientNames) :
        /\ clients' = [clients EXCEPT ![s] = SubSeq(ClientNames, 1, k)]
        /\ IF k = Len(ClientNames)
           THEN /\ Goto(s, "ui")
                /\ UNCHANGED page
           ELSE /\ Render(s, << <<"error", "Error initializing Google Cloud clients">> >>)
                /\ Stop(s)
    /\ UNCHANGED <<selected_lang_name, uploaded_file, clicked, credentials, calls,
                   transcript, translated_text, gcs_uri, operation, e, ret, now,
                   bucket, response, joined>>

\* lines 97-110: the form; process_and_translate starts only when a file is
\* present and the button was pressed.
ServeUI(s) ==
    /\ pc[s] = "ui"
    /\ Render(s, << <<"radio", selected_lang_name[s]>>, <<"file_uploader", uploaded_file[s].kind>> >>
                 \o (IF uploaded_file[s] # NoFile
                     THEN << <<"audio", "audio/wav">>, <<"button", clicked[s]>> >>
                     ELSE <<>>))
    /\ IF uploaded_file[s] # NoFile /\ clicked[s]
       THEN Goto(s, "normalize")
       ELSE Goto(s, "idle")
    /\ UNCHANGED <<selected_lang_name, uploaded_file, clicked, credentials, clients,
                   calls, transcript, translated_text, gcs_uri, operation, e, ret,
                   now, bucket, response, joined>>

-----------------------------------------------------------------------------
(* process_and_translate, lines 51-94 *)

widgets == <<selected_lang_name, uploaded_file, clicked, credentials, clients>>

Except_KeepPartial(s, op, why, rendered) ==
    /\ e' = [e EXCEPT ![s] = Fault(op, why)]
    /\ Render(s, rendered \o
                 << <<"error", <<"An error occurred during processing: ", Fault(op, why)>> >> >>)
    /\ ret' = [ret EXCEPT ![s] = <<transcript[s], translated_text[s], None>>]
    /\ Goto(s, "returned")

\* lines 92-94: the exception of call op is caught, reported, and the request
\* returns (None, None, None). `rendered` is what the step rendered before it.
Except(s, op, why, rendered) ==
    /\ e' = [e EXCEPT ![s] = Fault(op, why)]
    /\ Render(s, rendered \o
                 << <<"error", <<"An error occurred during processing: ", Fault(op, why)>> >> >>)
    /\ ret' = [ret EXCEPT ![s] = NoneTriple]
    /\ Goto(s, "returned")

\* lines 54-65: decode, force mono 16 kHz, export, measure, choose the branch.
Normalize(s) ==
    /\ pc[s] = "normalize"
    /\ Called(s, [op |-> "decode", file |-> uploaded_file[s].kind])
    /\ LET first == << <<"write", "1. Processing audio...">> >>
           ms == uploaded_file[s].ms
           shown == << <<"info", "Audio duration", (ms + 5) \div 10>>,
                       <<"write", "2. Transcribing audio...">> >>
       IN  IF uploaded_file[s].kind = "audio"
           THEN /\ IF IsShortAudio(ms)
                   THEN /\ Render(s, first \o shown)
                        /\ Goto(s, "recognize")
                   ELSE /\ Render(s, first \o shown \o << <<"info", "Long audio detected">> >>)
                        /\ Goto(s, "upload")
                /\ UNCHANGED <<e, ret>>
           ELSE Except(s, "decode", "error", first)
    /\ UNCHANGED <<widgets, transcript, translated_text, gcs_uri, operation, now,
                   bucket, response, joined>>

\* lines 66-68 and 77: the synchronous call and the assembly of its response.
RecognizeShort(s) ==
    /\ pc[s] = "recognize"
    /\ Called(s, [op |-> "recognize",
                  language_code |-> input_lang_options[selected_lang_name[s]],
                  audio |-> NormalizedAudio(s, uploaded_file[s])])
    /\ \/ /\ \E resp \in Responses :
                transcript' = [transcript EXCEPT ![s] = JoinTranscript(resp)]
          /\ Goto(s, "check")
          /\ UNCHANGED <<page, e, ret>>
       \/ /\ Except(s, "recognize", "error", <<>>)
          /\ UNCHANGED transcript
    /\ UNCHANGED <<widgets, translated_text, gcs_uri, operation, now, bucket,
                   response, joined>>

\* lines 45-49, called at line 71 with a name made from the clock.
UploadToGcs(s) ==
    /\ pc[s] = "upload"
    /\ LET name == BlobName(now)
           content == NormalizedAudio(s, uploaded_file[s])
       IN  /\ Called(s, [op |-> "upload", blob |-> name, audio |-> content])
           /\ \/ /\ bucket' = (name :> content) @@ bucket
                 /\ gcs_uri' = [gcs_uri EXCEPT ![s] = GcsUri(name)]
                 /\ Goto(s, "long_submit")
                 /\ UNCHANGED <<page, e, ret>>
              \/ /\ Except(s, "upload", "error", <<>>)
                 /\ UNCHANGED <<bucket, gcs_uri>>
    /\ UNCHANGED <<widgets, transcript, translated_text, operation, now, response,
                   joined>>

\* lines 72-74: the job is submitted on the URI; the service reads the object
\* the URI names, and the job either will complete or never does.
LongRunningRecognize(s) ==
    /\ pc[s] = "long_submit"
    /\ Called(s, [op |-> "long_running_recognize",
                  language_code |-> input_lang_options[selected_lang_name[s]],
                  uri |-> gcs_uri[s]])
    /\ \/ /\ \E completes \in BOOLEAN :
                operation' = [operation EXCEPT ![s] =
                                 [audio |-> bucket[BlobOfUri(gcs_uri[s])],
                                  completes |-> completes]]
          /\ Goto(s, "long_wait")
          /\ UNCHANGED <<page, e, ret>>
       \/ /\ Except(s, "long_running_recognize", "error", <<>>)
          /\ UNCHANGED operation
    /\ UNCHANGED <<widgets, transcript, translated_text, gcs_uri, now, bucket,
                   response, joined>>

OperationResult_NoCeiling(s) ==
    /\ pc[s] = "long_wait"
    /\ operation[s].completes
    /\ Called(s, [op |-> "result", timeout |-> ResultTimeout])
    /\ \/ /\ \E resp \in Responses :
                transcript' = [transcript EXCEPT ![s] = JoinTranscript(resp)]
          /\ Goto(s, "check")
          /\ UNCHANGED <<page, e, ret>>
       \/ /\ Except(s, "result", "error", <<>>)
          /\ UNCHANGED transcript
    /\ UNCHANGED <<widgets, translated_text, gcs_uri, operation, now, bucket,
                   response, joined>>

\* lines 75 and 77: operation.result(timeout=900) returns the response, raises
\* the job's fault, or raises at the ceiling when the job has not completed.
OperationResult(s) ==
    /\ pc[s] = "long_wait"
    /\ Called(s, [op |-> "result", timeout |-> ResultTimeout])
    /\ IF operation[s].completes
       THEN \/ /\ \E resp \in Responses :
                     transcript' = [transcript EXCEPT ![s] = JoinTranscript(resp)]
               /\ Goto(s, "check")
               /\ UNCHANGED <<page, e, ret>>
            \/ /\ Except(s, "result", "error", <<>>)
               /\ UNCHANGED transcript
       ELSE /\ Except(s, "result", "timeout", <<>>)
            /\ UNCHANGED transcript
    /\ UNCHANGED <<widgets, translated_text, gcs_uri, operation, now, bucket,
                   response, joined>>

CheckTranscript_IsNone(s) ==
    /\ pc[s] = "check"
    /\ IF transcript[s] = None
       THEN /\ Render(s, << <<"warning", "Could not recognize speech. Please try again.">> >>)
            /\ ret' = [ret EXCEPT ![s] = NoneTriple]
            /\ Goto(s, "returned")
       ELSE /\ Render(s, << <<"write", "3. Translating and synthesizing speech...">> >>)
            /\ Goto(s, "translate")
            /\ UNCHANGED ret
    /\ UNCHANGED <<widgets, calls, transcript, translated_text, gcs_uri, operation,
                   e, now, bucket, response, joined>>

\* lines 79-83: an empty transcript ends the request with a warning.
CheckTranscript(s) ==
    /\ pc[s] = "check"
    /\ IF transcript[s] = <<>>
       THEN /\ Render(s, << <<"warning", "Could not recognize speech. Please try again.">> >>)
            /\ ret' = [ret EXCEPT ![s] = NoneTriple]
            /\ Goto(s, "returned")
       ELSE /\ Render(s, << <<"write", "3. Translating and synthesizing speech...">> >>)
            /\ Goto(s, "translate")
            /\ UNCHANGED ret
    /\ UNCHANGED <<widgets, calls, transcript, translated_text, gcs_uri, operation,
                   e, now, bucket, response, joined>>

Translate_Retry(s) ==
    /\ pc[s] = "translate"
    /\ Called(s, [op |-> "translate", text |-> transcript[s],
                  target_language |-> "ta", source_language |-> Omitted])
    /\ \/ /\ translated_text' = [translated_text EXCEPT ![s] = Tamil(transcript[s])]
          /\ Goto(s, "synthesize")
       \/ /\ Len(calls[s]) < 8
          /\ UNCHANGED <<pc, translated_text>>
    /\ UNCHANGED <<widgets, page, e, ret, transcript, gcs_uri, operation, now, bucket,
                   response, joined>>

\* lines 84-85: translate(transcript, target_language="ta"); no source language
\* is among the arguments.
Translate(s) ==
    /\ pc[s] = "translate"
    /\ Called(s, [op |-> "translate", text |-> transcript[s],
                  target_language |-> "ta", source_language |-> Omitted])
    /\ \/ /\ translated_text' = [translated_text EXCEPT ![s] = Tamil(transcript[s])]
          /\ Goto(s, "synthesize")
          /\ UNCHANGED <<page, e, ret>>
       \/ /\ Except(s, "translate", "error", <<>>)
          /\ UNCHANGED translated_text
    /\ UNCHANGED <<widgets, transcript, gcs_uri, operation, now, bucket, response,
                   joined>>

\* lines 86-91: one synthesis call on the whole text, then the return.
Synthesize(s) ==
    /\ pc[s] = "synthesize"
    /\ Called(s, [op |-> "synthesize_speech", text |-> translated_text[s],
                  language_code |-> "ta-IN", audio_encoding |-> "MP3"])
    /\ \/ /\ \E audio_content \in SynthesizedAudio(translated_text[s]) :
                ret' = [ret EXCEPT ![s] = <<transcript[s], translated_text[s], audio_content>>]
          /\ Goto(s, "returned")
          /\ UNCHANGED <<page, e>>
       \/ Except(s, "synthesize_speech", "error", <<>>)
    /\ UNCHANGED <<widgets, transcript, translated_text, gcs_uri, operation, now,
                   bucket, response, joined>>

Present_OnText(s) ==
    /\ pc[s] = "returned"
    /\ IF Truthy(ret[s][1])
       THEN Render(s, << <<"success", "Translation Complete!">>,
                         <<"text_area", "Recognized Text", ret[s][1]>>,
                         <<"text_area", "Translated Text (Tamil)", ret[s][2]>>,
                         <<"subheader", "Translated Audio (Tamil)">>,
                         <<"audio", "audio/mp3", ret[s][3]>>,
                         <<"balloons", "">> >>)
       ELSE UNCHANGED page
    /\ Goto(s, "idle")
    /\ UNCHANGED <<widgets, calls, transcript, translated_text, gcs_uri, operation,
                   e, ret, now, bucket, response, joined>>

\* lines 113-121: the three outputs are rendered when the returned audio is
\* truthy.
Present(s) ==
    /\ pc[s] = "returned"
    /\ IF Truthy(ret[s][3])
       THEN Render(s, << <<"success", "Translation Complete!">>,
                         <<"text_area", "Recognized Text", ret[s][1]>>,
                         <<"text_area", "Translated Text (Tamil)", ret[s][2]>>,
                         <<"subheader", "Translated Audio (Tamil)">>,
                         <<"audio", "audio/mp3", ret[s][3]>>,
                         <<"balloons", "">> >>)
       ELSE UNCHANGED page
    /\ Goto(s, "idle")
    /\ UNCHANGED <<widgets, calls, transcript, translated_text, gcs_uri, operation,
                   e, ret, now, bucket, response, joined>>

-----------------------------------------------------------------------------
(* The user and the clock *)

\* A widget interaction on a served page starts a new run of the script.
Rerun(s, pressed) ==
    /\ FreshRun(s)
    /\ clicked' = [clicked EXCEPT ![s] = pressed]
    /\ Goto(s, "load_credentials")

\* line 102
SelectLanguage(s) ==
    /\ pc[s] = "idle"
    /\ \E name \in LangNames \ {selected_lang_name[s]} :
        selected_lang_name' = [selected_lang_name EXCEPT ![s] = name]
    /\ Rerun(s, FALSE)
    /\ UNCHANGED <<uploaded_file, now, bucket, response, joined>>

\* line 105
UploadFile(s) ==
    /\ pc[s] = "idle"
    /\ \E file \in (Files \cup {NoFile}) \ {uploaded_file[s]} :
        uploaded_file' = [uploaded_file EXCEPT ![s] = file]
    /\ Rerun(s, FALSE)
    /\ UNCHANGED <<selected_lang_name, now, bucket, response, joined>>

\* line 110: the button exists only while a file is uploaded.
ClickTranslate(s) ==
    /\ pc[s] = "idle"
    /\ uploaded_file[s] # NoFile
    /\ Rerun(s, TRUE)
    /\ UNCHANGED <<selected_lang_name, uploaded_file, now, bucket, response, joined>>

\* time.time() advances.
Tick ==
    /\ now < MaxClock
    /\ now' = now + 1
    /\ UNCHANGED <<sessionVars, bucket, response, joined>>

-----------------------------------------------------------------------------
(* Specifications *)

Startup(s) == LoadCredentials(s) \/ InitClients(s) \/ ServeUI(s)

Request(s) ==
    \/ Normalize(s)
    \/ RecognizeShort(s)
    \/ UploadToGcs(s)
    \/ LongRunningRecognize(s)
    \/ OperationResult(s)
    \/ CheckTranscript(s)
    \/ Translate(s)
    \/ Synthesize(s)
    \/ Present(s)

User(s) == SelectLanguage(s) \/ UploadFile(s) \/ ClickTranslate(s)

\* The script's own steps of a session: what runs without the user.
Script(s) == Startup(s) \/ Request(s)

(* Spec: one browser session. Sessions touch each other only through the   *)
(* bucket and the clock, neither of which the script reads back, so a      *)
(* request behaves the same whatever other sessions do.                    *)
Next ==
    \/ Startup("s1")
    \/ Request("s1")
    \/ User("s1")
    \/ Tick

Spec == Init /\ [][Next]_vars

(* FairSpec: a script run that can take a step takes it (every call        *)
(* returns or raises); the user and the clock are under no obligation.     *)
FairSpec == Spec /\ WF_vars(Script("s1"))

(* SharedSpec: two sessions on one server, each with a long recording      *)
(* uploaded and its form served, pressing the button any number of times.  *)
InitShared ==
    /\ pc \in [Sessions -> {"idle"}]
    /\ selected_lang_name \in [Sessions -> {"English"}]
    /\ uploaded_file \in [Sessions -> {[kind |-> "audio", ms |-> 90000]}]
    /\ clicked \in [Sessions -> {FALSE}]
    /\ credentials \in [Sessions -> {"secrets"}]
    /\ clients \in [Sessions -> {ClientNames}]
    /\ calls \in [Sessions -> {<<>>}]
    /\ page \in [Sessions -> {<< <<"radio", "English">>, <<"file_uploader", "audio">>,
                                 <<"audio", "audio/wav">>, <<"button", FALSE>> >>}]
    /\ transcript \in [Sessions -> {None}]
    /\ translated_text \in [Sessions -> {None}]
    /\ gcs_uri \in [Sessions -> {None}]
    /\ operation \in [Sessions -> {NoOperation}]
    /\ e \in [Sessions -> {NoFault}]
    /\ ret \in [Sessions -> {NotReturned}]
    /\ now = 0
    /\ bucket = <<>>
    /\ response = <<>>
    /\ joined = None

NextShared ==
    \/ \E s \in Sessions : ClickTranslate(s)
    \/ \E s \in Sessions : Startup(s)
    \/ \E s \in Sessions : Normalize(s)
    \/ \E s \in Sessions : UploadToGcs(s)
    \/ \E s \in Sessions : LongRunningRecognize(s)
    \/ \E s \in Sessions : OperationResult(s)
    \/ \E s \in Sessions : CheckTranscript(s)
    \/ \E s \in Sessions : Translate(s)
    \/ \E s \in Sessions : Synthesize(s)
    \/ \E s \in Sessions : Present(s)
    \/ Tick

SharedSpec == InitShared /\ [][NextShared]_vars

(* JoinSpec: the assembly of line 77 applied to every bounded response.    *)
InitJoin ==
    /\ InitSessions
    /\ response \in Responses
    /\ joined = None

Assemble ==
    /\ joined = None
    /\ joined' = JoinTranscript(response)
    /\ UNCHANGED <<sessionVars, now, bucket, response>>

JoinSpec == InitJoin /\ [][Assemble]_vars

-----------------------------------------------------------------------------
(* Properties *)

HasOp(s, op) == \E i \in 1..Len(calls[s]) : calls[s][i].op = op

CountOp(s, op) == Count(Ops(calls[s]), op)

CallOf(s, op) == calls[s][CHOOSE i \in 1..Len(calls[s]) : calls[s][i].op = op]

HasKind(s, kind) == \E i \in 1..Len(page[s]) : page[s][i][1] = kind

CountKind(s, kind) == Count(Kinds(page[s]), kind)

IsPrefix(p, q) == Len(p) <= Len(q) /\ SubSeq(q, 1, Len(p)) = p

\* The run of s has finished decoding its upload successfully.
Decoded(s) == HasOp(s, "decode") /\ e[s] # Fault("decode", "error")

\* The three output regions, as rendered elements of the page.
RecognizedShown(s) ==
    \E i \in 1..Len(page[s]) :
        page[s][i][1] = "text_area" /\ page[s][i][2] = "Recognized Text"
TranslatedShown(s) ==
    \E i \in 1..Len(page[s]) :
        page[s][i][1] = "text_area" /\ page[s][i][2] = "Translated Text (Tamil)"
AudioShown(s) ==
    \E i \in 1..Len(page[s]) :
        page[s][i][1] = "audio" /\ page[s][i][2] = "audio/mp3"

InRequest(s) ==
    pc[s] \in {"normalize", "recognize", "upload", "long_submit", "long_wait",
               "check", "translate", "synthesize", "returned"}

\* C1: once the upload is decoded, the branch is decided by its duration alone:
\* below 60000 ms the run makes one synchronous recognize call on the normalized
\* bytes and never uploads or submits a job; from 60000 ms on it makes one
\* upload of the normalized bytes, then one long_running_recognize on the URI
\* the upload returned, and never the synchronous call.
C1_BranchByDuration ==
    \A s \in Sessions :
        Decoded(s) =>
            LET ms == uploaded_file[s].ms
                audio == [owner |-> s, ms |-> ms, channels |-> 1, rate |-> 16000]
            IN  IF ms < 60000
                THEN /\ ~HasOp(s, "upload")
                     /\ ~HasOp(s, "long_running_recognize")
                     /\ ~HasOp(s, "result")
                     /\ CountOp(s, "recognize") = (IF pc[s] = "recognize" THEN 0 ELSE 1)
                     /\ HasOp(s, "recognize") => CallOf(s, "recognize").audio = audio
                ELSE /\ ~HasOp(s, "recognize")
                     /\ CountOp(s, "upload") = (IF pc[s] = "upload" THEN 0 ELSE 1)
                     /\ HasOp(s, "upload") => CallOf(s, "upload").audio = audio
                     /\ CountOp(s, "long_running_recognize") =
                            (IF pc[s] \in {"upload", "long_submit"}
                                \/ e[s] = Fault("upload", "error")
                             THEN 0 ELSE 1)
                     /\ HasOp(s, "long_running_recognize") =>
                            /\ Ops(calls[s])[2] = "upload"
                            /\ Ops(calls[s])[3] = "long_running_recognize"
                            /\ CallOf(s, "long_running_recognize").uri
                                 = <<"gs://", BUCKET_NAME, "/">> \o CallOf(s, "upload").blob

\* C1 witness: audio of exactly 60 seconds whose job was submitted on the long path.
C1_Witness ==
    /\ uploaded_file["s1"].ms = 60000
    /\ HasOp("s1", "long_running_recognize")
    /\ pc["s1"] = "idle"

\* C2: a request whose transcription returned the empty transcript never calls
\* translation or synthesis, ends with one warning and no error, and returns
\* (None, None, None); translation is reached only with a non-empty transcript.
C2_EmptyTranscriptShortCircuits ==
    \A s \in Sessions :
        /\ (transcript[s] = <<>> /\ pc[s] \in {"returned", "idle"}) =>
              /\ ~HasOp(s, "translate")
              /\ ~HasOp(s, "synthesize_speech")
              /\ CountKind(s, "warning") = 1
              /\ CountKind(s, "error") = 0
              /\ ret[s] = NoneTriple
              /\ ~RecognizedShown(s) /\ ~TranslatedShown(s) /\ ~AudioShown(s)
        /\ transcript[s] = <<>> => pc[s] \in {"check", "returned", "idle"}
        /\ HasOp(s, "translate") => transcript[s] # <<>> /\ transcript[s] # None

\* C2 witness: a finished long-path request whose job returned no speech.
C2_Witness ==
    /\ transcript["s1"] = <<>>
    /\ HasOp("s1", "result")
    /\ pc["s1"] = "idle"

\* C3: when a stage of a request faults, the faulting call is the last call of
\* the request, the page carries exactly one error, which holds the fault, and
\* the request returns (None, None, None) and renders no output region.
C3_FaultAbortsRequest ==
    \A s \in Sessions :
        e[s] # NoFault =>
            /\ pc[s] \in {"returned", "idle"}
            /\ calls[s][Len(calls[s])].op = e[s][2]
            /\ CountKind(s, "error") = 1
            /\ \E i \in 1..Len(page[s]) :
                   /\ page[s][i][1] = "error"
                   /\ page[s][i][2][2] = e[s]
            /\ ret[s] = NoneTriple
            /\ ~RecognizedShown(s) /\ ~TranslatedShown(s) /\ ~AudioShown(s)

\* C3 witness: synthesis faulted after transcription and translation succeeded.
C3_Witness ==
    /\ e["s1"] = Fault("synthesize_speech", "error")
    /\ transcript["s1"] # <<>>
    /\ translated_text["s1"] # None
    /\ pc["s1"] = "idle"

\* C4: a run that finds no credentials halts with no client constructed; a run
\* in which a client construction fails halts too; a halted run has served no
\* widget, made no call, returned nothing, and never leaves the halt.
C4_HaltedState ==
    \A s \in Sessions :
        /\ credentials[s] = "none" => pc[s] = "halted" /\ clients[s] = <<>>
        /\ (credentials[s] \in {"secrets", "file"} /\ pc[s] # "init_clients"
               /\ clients[s] # ClientNames) => pc[s] = "halted"
        /\ pc[s] = "halted" =>
              /\ clients[s] # ClientNames
              /\ ~HasKind(s, "radio") /\ ~HasKind(s, "file_uploader")
              /\ ~HasKind(s, "button")
              /\ calls[s] = <<>>
              /\ ret[s] = NotReturned
        /\ (InRequest(s) \/ pc[s] \in {"ui", "idle"}) => clients[s] = ClientNames

C4_HaltsBeforeUI ==
    /\ []C4_HaltedState
    /\ [][\A s \in Sessions : pc[s] = "halted" => pc'[s] = "halted"]_vars

\* C4 witness: a run halted for want of credentials.
C4_Witness ==
    /\ pc["s1"] = "halted"
    /\ credentials["s1"] = "none"

\* C5: the calls of a run are a prefix of decode, recognize, translate,
\* synthesize_speech or of decode, upload, long_running_recognize, result,
\* translate, synthesize_speech, so each is made at most once and in this order;
\* translation is given the transcript and synthesis the translation, and the
\* outputs are on the page only after synthesis was called and returned.
ShortOrder == <<"decode", "recognize", "translate", "synthesize_speech">>
LongOrder == <<"decode", "upload", "long_running_recognize", "result",
               "translate", "synthesize_speech">>

C5_StagesInOrder ==
    \A s \in Sessions :
        /\ \/ IsPrefix(Ops(calls[s]), ShortOrder)
           \/ IsPrefix(Ops(calls[s]), LongOrder)
        /\ HasOp(s, "translate") =>
              /\ transcript[s] # None
              /\ CallOf(s, "translate").text = transcript[s]
        /\ HasOp(s, "synthesize_speech") =>
              /\ translated_text[s] # None
              /\ CallOf(s, "synthesize_speech").text = translated_text[s]
        /\ (RecognizedShown(s) \/ TranslatedShown(s) \/ AudioShown(s)) =>
              /\ Ops(calls[s]) \in {ShortOrder, LongOrder}
              /\ e[s] = NoFault
              /\ pc[s] = "idle"

\* C5 witness: a long-path request that went through every stage and presented.
C5_Witness ==
    /\ Ops(calls["s1"]) = LongOrder
    /\ AudioShown("s1")

\* C6: every translate call carries the locale code of the language selected in
\* the form as its source language and Tamil as its target, and every
\* transcription call carries that same locale code.
C6_SourceLanguagePassed ==
    \A s \in Sessions : \A i \in 1..Len(calls[s]) :
        LET code == input_lang_options[selected_lang_name[s]]
        IN  /\ calls[s][i].op = "translate" =>
                  /\ calls[s][i].source_language = code
                  /\ calls[s][i].target_language = "ta"
            /\ calls[s][i].op \in {"recognize", "long_running_recognize"} =>
                  calls[s][i].language_code = code

\* C7: the assembled text is the first alternatives of the results, end to end:
\* its length is the sum of their lengths, result i's first alternative sits at
\* the offset of the ones before it, and no results give the empty text.
RECURSIVE FirstsLen(_, _)
FirstsLen(results, n) ==
    IF n = 0 THEN 0 ELSE FirstsLen(results, n - 1) + Len(results[n][1])

C7_TranscriptIsConcatenation ==
    joined # None =>
        /\ Len(joined) = FirstsLen(response, Len(response))
        /\ \A i \in 1..Len(response) :
               SubSeq(joined, FirstsLen(response, i - 1) + 1, FirstsLen(response, i))
                 = response[i][1]
        /\ response = <<>> => joined = <<>>

\* C7 witness: two results with differing alternatives, assembled in order.
C7_Witness ==
    /\ response = << <<<<"a">>, <<"b">>>>, <<<<"b">>, <<"a">>>> >>
    /\ joined = <<"a", "b">>

\* C8: two sessions whose current requests both staged their audio hold
\* different blob names, and the object a job reads is the audio of the session
\* that submitted it.
C8_DistinctBlobNames ==
    \A s \in Sessions :
        /\ \A t \in Sessions \ {s} :
              (gcs_uri[s] # None /\ gcs_uri[t] # None) => gcs_uri[s] # gcs_uri[t]
        /\ pc[s] = "long_wait" => operation[s].audio.owner = s

\* C9: under FairSpec a request that has started reaches the end of its run; a
\* job that never completes ends the wait with the timeout fault, after which
\* the request is an error outcome with no translation or synthesis call.
C9_TimeoutOutcome ==
    \A s \in Sessions :
        (HasOp(s, "result") /\ ~operation[s].completes) =>
            /\ e[s] = Fault("result", "timeout")
            /\ pc[s] \in {"returned", "idle"}
            /\ ret[s] = NoneTriple
            /\ CountKind(s, "error") = 1
            /\ ~HasOp(s, "translate")
            /\ ~HasOp(s, "synthesize_speech")

C9_RequestTerminates ==
    /\ \A s \in Sessions : InRequest(s) ~> (pc[s] = "idle" /\ ret[s] # NotReturned)
    /\ []C9_TimeoutOutcome

\* C9 witness: a request ended by the ceiling of the wait.
C9_Witness ==
    /\ e["s1"] = Fault("result", "timeout")
    /\ pc["s1"] = "idle"

\* C10: the three output regions are on the page together or not at all; after
\* a request they are there exactly when the returned audio is non-empty, and
\* then the recognized text shown is the non-empty transcript that was sent to
\* translation; after a warning or an error none is there.
C10_AllOrNothing ==
    \A s \in Sessions :
        /\ RecognizedShown(s) <=> TranslatedShown(s)
        /\ TranslatedShown(s) <=> AudioShown(s)
        /\ AudioShown(s) <=> HasKind(s, "success")
        /\ (pc[s] = "idle" /\ ret[s] # NotReturned) =>
              (AudioShown(s) <=> (ret[s][3] # None /\ ret[s][3] # <<>>))
        /\ AudioShown(s) =>
              \E i \in 1..Len(page[s]) :
                  /\ page[s][i][1] = "text_area"
                  /\ page[s][i][2] = "Recognized Text"
                  /\ page[s][i][3] # <<>>
                  /\ page[s][i][3] # None
                  /\ page[s][i][3] = CallOf(s, "translate").text
        /\ (HasKind(s, "warning") \/ HasKind(s, "error")) => ~AudioShown(s)

\* C10 witness: a finished short-path request that returned non-empty audio and
\* has the three regions on its page.
C10_Witness ==
    /\ pc["s1"] = "idle"
    /\ HasOp("s1", "recognize")
    /\ ret["s1"] # NotReturned
    /\ ret["s1"][3] # <<>> /\ ret["s1"][3] # None
    /\ RecognizedShown("s1") /\ TranslatedShown("s1") /\ AudioShown("s1")

====
